---- MODULE Spec2Model ----
(***************************************************************************)
(* Model of phosphor-regulators/tools/validate-regulators-config.py: the   *)
(* semantic checks run on a parsed regulators configuration file.          *)
(*                                                                         *)
(* A JSON value is a tagged record [t, v]:                                 *)
(*   t = "dict": v is the sequence of entries [k |-> key, v |-> value] in  *)
(*               document order (Python dicts keep insertion order);       *)
(*   t = "list": v is the sequence of the items;                           *)
(*   t = "str" / "num": v is the scalar.                                   *)
(***************************************************************************)
EXTENDS Integers, Sequences, FiniteSets, TLC

VARIABLES
    config_json,  \* the parsed configuration file (the json_element of a scan)
    key,          \* get_values: the key searched for
    result,       \* get_values: the list returned
    pc,           \* the check __main__ is in, or "exit0" / "failed"
    ran,          \* the checks entered so far, in order
    error,        \* what the failing check wrote before sys.exit
    rule_index,   \* check_infinite_loops: rules already handed to the traversal
    frames,       \* live calls of check_infinite_loops_in_rule, outermost first
    call_stack,   \* the list bound to the default argument call_stack=[]
    runs          \* calls of check_infinite_loops made in this process

vars == <<config_json, key, result, pc, ran, error, rule_index, frames,
          call_stack, runs>>

(***************************************************************************)
(* Bounds of the model.                                                    *)
(***************************************************************************)
MaxNodes == 4      \* nodes of a JSON tree handed to get_values alone
MaxRules == 3      \* rules of a document handed to check_infinite_loops
MaxActions == 3    \* actions of such a document, over all its rules
MaxEntities == 4   \* rules, chassis, devices and rails of a document, in all
MaxBytes == 2      \* length of a masks or values array

(***************************************************************************)
(* JSON values.                                                            *)
(***************************************************************************)
Str(s) == [t |-> "str", v |-> s]
Num(n) == [t |-> "num", v |-> n]
List(items) == [t |-> "list", v |-> items]
Dict(entries) == [t |-> "dict", v |-> entries]
Entry(k, v) == [k |-> k, v |-> v]
EmptyDict == Dict(<<>>)
EmptyList == List(<<>>)

\* key in d
Has(d, k) == \E i \in 1..Len(d.v) : d.v[i].k = k

\* d.get(k, default)
Get(d, k, default) ==
    IF Has(d, k)
    THEN d.v[CHOOSE i \in 1..Len(d.v) : d.v[i].k = k].v
    ELSE default

\* d[k]
Item(d, k) == d.v[CHOOSE i \in 1..Len(d.v) : d.v[i].k = k].v

\* "for x in d.get(k, {})": the items iterated (none for the default {})
Items(d, k) == Get(d, k, EmptyDict).v

\* x in list
InList(x, list) == \E i \in 1..Len(list) : list[i] = x

IsContainer(x) == x.t \in {"list", "dict"}

(***************************************************************************)
(* get_values(json_element, key, result=None)                              *)
(***************************************************************************)
RECURSIVE get_values(_, _, _), get_values_dict(_, _, _, _), get_values_list(_, _, _, _)

\* lines 33-37: for json_key in json_element, from entry i on
get_values_dict(entries, i, k, acc) ==
    IF i > Len(entries) THEN acc
    ELSE LET e == entries[i]
             next == IF e.k = k THEN Append(acc, e.v)
                     ELSE IF IsContainer(e.v) THEN get_values(e.v, k, acc)
                     ELSE acc
         IN get_values_dict(entries, i + 1, k, next)

\* lines 39-41: for item in json_element, from item i on
get_values_list(items, i, k, acc) ==
    IF i > Len(items) THEN acc
    ELSE LET next == IF IsContainer(items[i]) THEN get_values(items[i], k, acc)
                     ELSE acc
         IN get_values_list(items, i + 1, k, next)

get_values(json_element, k, acc) ==
    IF json_element.t = "dict" THEN get_values_dict(json_element.v, 1, k, acc)
    ELSE IF json_element.t = "list" THEN get_values_list(json_element.v, 1, k, acc)
    ELSE acc

(***************************************************************************)
(* Inputs of a get_values call on its own: every JSON tree of at most      *)
(* MaxNodes nodes over the keys ScanKeys and one scalar.                   *)
(***************************************************************************)
ScanKeys == {"k", "x"}

\* the sequences of distinct keys of length n
KeySeqs(n) == {ks \in [1..n -> ScanKeys] : \A i, j \in 1..n : ks[i] = ks[j] => i = j}

RECURSIVE TreesOfSize(_), ForestsOfSize(_)

\* the sequences of trees with n nodes in all
ForestsOfSize(n) ==
    IF n = 0 THEN {<<>>}
    ELSE UNION {{<<tr>> \o f : tr \in TreesOfSize(m), f \in ForestsOfSize(n - m)} :
                m \in 1..n}

TreesOfSize(n) ==
    IF n = 1 THEN {Str("s"), EmptyDict, EmptyList}
    ELSE {List(f) : f \in ForestsOfSize(n - 1)}
         \cup UNION {{Dict([i \in 1..Len(f) |-> Entry(ks[i], f[i])]) : ks \in KeySeqs(Len(f))} :
                     f \in ForestsOfSize(n - 1)}

ScanTrees == UNION {TreesOfSize(n) : n \in 1..MaxNodes}

NoError == [kind |-> "none", detail |-> <<>>]

InitScan ==
    /\ config_json \in ScanTrees
    /\ key \in ScanKeys
    /\ result = <<>>
    /\ pc = "get_values"
    /\ ran = <<>>
    /\ error = NoError
    /\ rule_index = 0
    /\ frames = <<>>
    /\ call_stack = <<>>
    /\ runs = 0

\* a call get_values(config_json, key)
Scan ==
    /\ pc = "get_values"
    /\ result' = get_values(config_json, key, <<>>)
    /\ pc' = "returned"
    /\ UNCHANGED <<config_json, key, ran, error, rule_index, frames, call_stack, runs>>

SpecScan == InitScan /\ [][Scan]_vars

(***************************************************************************)
(* The checks of __main__ in the order it calls them (check_for_duplicates *)
(* expanded into the five checks it calls).                                *)
(***************************************************************************)
Checks ==
    << "validate_schema",
       "check_duplicate_rule_id",
       "check_duplicate_chassis_number",
       "check_duplicate_device_id",
       "check_duplicate_rail_id",
       "check_duplicate_object_id",
       "check_infinite_loops",
       "check_run_rule_value_exists",
       "check_set_device_value_exists",
       "check_rule_id_exists",
       "check_device_id_exists",
       "check_number_of_elements_in_masks" >>

Position(p) == CHOOSE i \in 1..Len(Checks) : Checks[i] = p

\* the statement reached when check p returns: the next call, or the end of
\* the script
NextCheck(p) ==
    IF Position(p) = Len(Checks) THEN "exit0" ELSE Checks[Position(p) + 1]

\* a check returned: control enters the next one
Proceed ==
    /\ pc' = NextCheck(pc)
    /\ ran' = IF NextCheck(pc) = "exit0" THEN ran ELSE Append(ran, NextCheck(pc))
    /\ error' = error

\* handle_validation_error() returning instead of exiting: the message is
\* written and the script goes on
FailAndGoOn(kind, detail) ==
    /\ pc' = NextCheck(pc)
    /\ ran' = IF NextCheck(pc) = "exit0" THEN ran ELSE Append(ran, NextCheck(pc))
    /\ error' = [kind |-> kind, detail |-> detail]

\* handle_validation_error(): sys.exit("Validation failed.") after the check
\* wrote its message
Fail(kind, detail) ==
    /\ pc' = "failed"
    /\ ran' = ran
    /\ error' = [kind |-> kind, detail |-> detail]

(***************************************************************************)
(* check_infinite_loops and check_infinite_loops_in_rule.                  *)
(* A frame is one live call of check_infinite_loops_in_rule: its rule_json,*)
(* the position of "for action in ..." and the position of the inner       *)
(* "for rule in ..." (0 outside that loop).                                *)
(***************************************************************************)
Rules == Items(config_json, "rules")

Actions(rule_json) == Items(rule_json, "actions")

\* line 192: call_stack.append(rule_json["id"])
Push(stack, rule_json) == Append(stack, Item(rule_json, "id"))

\* line 210 left out: the rule's id stays on the list
PopNothing(stack) == stack

\* line 210 taking the first element instead of the last
PopFirst(stack) == SubSeq(stack, 2, Len(stack))

\* line 210: call_stack.pop()
Pop(stack) == SubSeq(stack, 1, Len(stack) - 1)

\* line 196: run_rule_id in call_stack
InCallStack(run_rule_id, stack) == InList(run_rule_id, stack)

\* line 197 left out: the list is written without the repeated target
ReportedPathNoTarget(stack, run_rule_id) == stack

\* line 197: call_stack.append(run_rule_id), the list then written to stderr
ReportedPath(stack, run_rule_id) == Append(stack, run_rule_id)

\* lines 205-206: the first rule at position j or later whose id is
\* run_rule_id, or 0 when the loop ends without one
NextMatch(j, run_rule_id) ==
    IF \E m \in j..Len(Rules) : Item(Rules[m], "id") = run_rule_id
    THEN CHOOSE m \in j..Len(Rules) :
            /\ Item(Rules[m], "id") = run_rule_id
            /\ \A l \in j..(m - 1) : Item(Rules[l], "id") # run_rule_id
    ELSE 0

\* the inner loop starting over at the rule it just called
ResumeAtSame(m) == m

\* where the inner loop resumes once the call made for rule m returns
ResumeAt(m) == m + 1

Top == frames[Len(frames)]

CurrentAction == Actions(Top.rule_json)[Top.action]

NewFrame(rule_json) == [rule_json |-> rule_json, action |-> 1, lookup |-> 0]

SetTop(f) == [frames EXCEPT ![Len(frames)] = f]

InLoops == pc = "check_infinite_loops"

\* lines 220-221: the next rule is handed to check_infinite_loops_in_rule,
\* which appends its id to the default call_stack
CallRoot ==
    /\ InLoops
    /\ frames = <<>>
    /\ rule_index < Len(Rules)
    /\ rule_index' = rule_index + 1
    /\ frames' = <<NewFrame(Rules[rule_index + 1])>>
    /\ call_stack' = Push(call_stack, Rules[rule_index + 1])
    /\ UNCHANGED <<config_json, key, result, pc, ran, error, runs>>

\* line 194: an action without run_rule is passed over
SkipAction ==
    /\ InLoops
    /\ frames # <<>>
    /\ Top.lookup = 0
    /\ Top.action <= Len(Actions(Top.rule_json))
    /\ ~Has(CurrentAction, "run_rule")
    /\ frames' = SetTop([Top EXCEPT !.action = @ + 1])
    /\ UNCHANGED <<config_json, key, result, pc, ran, error, rule_index, call_stack, runs>>

\* lines 196-203: the target is on the call stack
ReportLoop ==
    /\ InLoops
    /\ frames # <<>>
    /\ Top.lookup = 0
    /\ Top.action <= Len(Actions(Top.rule_json))
    /\ Has(CurrentAction, "run_rule")
    /\ InCallStack(Item(CurrentAction, "run_rule"), call_stack)
    /\ call_stack' = ReportedPath(call_stack, Item(CurrentAction, "run_rule"))
    /\ Fail("InfiniteLoop", ReportedPath(call_stack, Item(CurrentAction, "run_rule")))
    /\ frames' = <<>>
    /\ UNCHANGED <<config_json, key, result, rule_index, runs>>

\* the inner loop from position j on: a call for the next rule with the id,
\* or the end of the loop and the next action
Lookup(j) ==
    LET run_rule_id == Item(CurrentAction, "run_rule")
        m == NextMatch(j, run_rule_id)
    IN IF m = 0
       THEN /\ frames' = SetTop([Top EXCEPT !.action = @ + 1, !.lookup = 0])
            /\ call_stack' = call_stack
       ELSE /\ frames' = Append(SetTop([Top EXCEPT !.lookup = ResumeAt(m)]),
                                NewFrame(Rules[m]))
            /\ call_stack' = Push(call_stack, Rules[m])

\* lines 204-209: the target is not on the call stack
RunRule ==
    /\ InLoops
    /\ frames # <<>>
    /\ Top.lookup = 0
    /\ Top.action <= Len(Actions(Top.rule_json))
    /\ Has(CurrentAction, "run_rule")
    /\ ~InCallStack(Item(CurrentAction, "run_rule"), call_stack)
    /\ Lookup(1)
    /\ UNCHANGED <<config_json, key, result, pc, ran, error, rule_index, runs>>

\* lines 205-209 after a call returned: the inner loop goes on
ResumeLookup ==
    /\ InLoops
    /\ frames # <<>>
    /\ Top.lookup > 0
    /\ Lookup(Top.lookup)
    /\ UNCHANGED <<config_json, key, result, pc, ran, error, rule_index, runs>>

\* line 210: the actions are exhausted
ReturnFromRule ==
    /\ InLoops
    /\ frames # <<>>
    /\ Top.lookup = 0
    /\ Top.action > Len(Actions(Top.rule_json))
    /\ call_stack' = Pop(call_stack)
    /\ frames' = SubSeq(frames, 1, Len(frames) - 1)
    /\ UNCHANGED <<config_json, key, result, pc, ran, error, rule_index, runs>>

\* line 220: the rules are exhausted, check_infinite_loops returns
LoopsReturn ==
    /\ InLoops
    /\ frames = <<>>
    /\ rule_index = Len(Rules)
    /\ Proceed
    /\ UNCHANGED <<config_json, key, result, rule_index, frames, call_stack, runs>>

check_infinite_loops ==
    \/ CallRoot
    \/ SkipAction
    \/ ReportLoop
    \/ RunRule
    \/ ResumeLookup
    \/ ReturnFromRule
    \/ LoopsReturn

(***************************************************************************)
(* Inputs of a check_infinite_loops call on its own: documents of MaxRules *)
(* rules with at most MaxActions actions in all. Rule i is named           *)
(* RuleNames[i], or the last rule repeats the name of the first; an action *)
(* is a run_rule of one of the names, and the first rule may start with a  *)
(* run_rule wrapped in a "not".                                            *)
(***************************************************************************)
RuleNames == <<"r1", "r2", "r3", "r4", "r5", "r6">>

RunRuleAction(i) == Dict(<<Entry("run_rule", Str(RuleNames[i]))>>)

NestedRunRuleAction(i) == Dict(<<Entry("not", RunRuleAction(i))>>)

RuleJson(name, actions) ==
    IF actions = <<>>
    THEN Dict(<<Entry("id", Str(name))>>)
    ELSE Dict(<<Entry("id", Str(name)), Entry("actions", List(actions))>>)

LoopActions == {RunRuleAction(i) : i \in 1..MaxRules}

ActionSeqs(k) == UNION {[1..m -> LoopActions] : m \in 0..k}

RECURSIVE ActionSplits(_, _)
\* the ways to give n rules their action lists, k actions at most in all
ActionSplits(n, k) ==
    IF n = 0 THEN {<<>>}
    ELSE UNION {{<<as>> \o rest : rest \in ActionSplits(n - 1, k - Len(as))} :
                as \in ActionSeqs(k)}

\* the same lists, the first one after a wrapped run_rule
WithNested(split) == [split EXCEPT ![1] = <<NestedRunRuleAction(1)>> \o @]

LoopSplits ==
    ActionSplits(MaxRules, MaxActions)
    \cup {WithNested(split) : split \in ActionSplits(MaxRules, MaxActions - 1)}

LoopNames == {[i \in 1..MaxRules |-> RuleNames[i]],
              [i \in 1..MaxRules |-> IF i = MaxRules THEN RuleNames[1] ELSE RuleNames[i]]}

LoopDocs ==
    {EmptyDict} \cup
    {Dict(<<Entry("rules", List([i \in 1..MaxRules |-> RuleJson(names[i], split[i])]))>>) :
        names \in LoopNames, split \in LoopSplits}

InitLoops ==
    /\ config_json \in LoopDocs
    /\ key = "none"
    /\ result = <<>>
    /\ pc = "check_infinite_loops"
    /\ ran = <<"check_infinite_loops">>
    /\ error = NoError
    /\ rule_index = 0
    /\ frames = <<>>
    /\ call_stack = <<>>
    /\ runs = 1

SpecLoops == InitLoops /\ [][check_infinite_loops]_vars

(***************************************************************************)
(* The identifier lists.                                                   *)
(***************************************************************************)
RECURSIVE Concat(_)
Concat(seqs) == IF seqs = <<>> THEN <<>> ELSE Head(seqs) \o Concat(Tail(seqs))

IdsOf(objects) == [i \in 1..Len(objects) |-> Item(objects[i], "id")]

get_rule_ids(config) == IdsOf(Items(config, "rules"))

\* the device ids of the first chassis alone
get_device_ids_first_chassis(config) ==
    IF Items(config, "chassis") = <<>> THEN <<>>
    ELSE IdsOf(Items(Items(config, "chassis")[1], "devices"))

get_device_ids(config) ==
    Concat([c \in 1..Len(Items(config, "chassis")) |->
                IdsOf(Items(Items(config, "chassis")[c], "devices"))])

\* lines 313-316: the rail ids in the order the three loops meet them
RailIds(config) ==
    Concat([c \in 1..Len(Items(config, "chassis")) |->
        Concat([d \in 1..Len(Items(Items(config, "chassis")[c], "devices")) |->
            IdsOf(Items(Items(Items(config, "chassis")[c], "devices")[d], "rails"))])])

\* lines 272-273: the chassis numbers in order
ChassisNumbers(config) ==
    [c \in 1..Len(Items(config, "chassis")) |-> Item(Items(config, "chassis")[c], "number")]

\* "if x in seen: fail, else: record x" over seq: the position of the first
\* element met before, 0 when there is none
FirstRepeat(seq) ==
    IF \E i \in 1..Len(seq) : \E j \in 1..(i - 1) : seq[j] = seq[i]
    THEN CHOOSE i \in 1..Len(seq) :
            /\ \E j \in 1..(i - 1) : seq[j] = seq[i]
            /\ \A l \in 1..(i - 1) : \A j \in 1..(l - 1) : seq[j] # seq[l]
    ELSE 0

\* "for x in found: if x not in valid: fail": the position of the first
\* element of found that is not in valid, 0 when there is none
FirstMissing(found, valid) ==
    IF \E i \in 1..Len(found) : ~InList(found[i], valid)
    THEN CHOOSE i \in 1..Len(found) :
            /\ ~InList(found[i], valid)
            /\ \A l \in 1..(i - 1) : InList(found[l], valid)
    ELSE 0

\* a check that is one pass over the document: it fails with what it met
\* at position bad of seq, or returns
Check(name, seq, bad, kind) ==
    /\ pc = name
    /\ IF bad # 0 THEN Fail(kind, seq[bad]) ELSE Proceed
    /\ UNCHANGED <<config_json, key, result, rule_index, frames, call_stack, runs>>

(***************************************************************************)
(* validate_schema: jsonschema.validate is outside this file; it accepts   *)
(* the document or raises ValidationError.                                 *)
(***************************************************************************)
validate_schema ==
    /\ pc = "validate_schema"
    /\ \E valid \in BOOLEAN :
          IF valid THEN Proceed ELSE Fail("SchemaInvalid", <<>>)
    /\ UNCHANGED <<config_json, key, result, rule_index, frames, call_stack, runs>>

(***************************************************************************)
(* check_for_duplicates                                                    *)
(***************************************************************************)
check_duplicate_rule_id ==
    Check("check_duplicate_rule_id", get_rule_ids(config_json),
          FirstRepeat(get_rule_ids(config_json)), "DuplicateRuleID")

check_duplicate_chassis_number ==
    Check("check_duplicate_chassis_number", ChassisNumbers(config_json),
          FirstRepeat(ChassisNumbers(config_json)), "DuplicateChassisNumber")

check_duplicate_device_id ==
    Check("check_duplicate_device_id", get_device_ids(config_json),
          FirstRepeat(get_device_ids(config_json)), "DuplicateDeviceID")

check_duplicate_rail_id ==
    Check("check_duplicate_rail_id", RailIds(config_json),
          FirstRepeat(RailIds(config_json)), "DuplicateRailID")

\* the ids of the rules alone
JsonIdsOfRules(config) == get_rule_ids(config)

\* line 230: json_ids = get_values(config_json, "id")
JsonIds(config) == get_values(config, "id", <<>>)

check_duplicate_object_id ==
    Check("check_duplicate_object_id", JsonIds(config_json),
          FirstRepeat(JsonIds(config_json)), "DuplicateID")

(***************************************************************************)
(* The reference checks.                                                   *)
(***************************************************************************)
check_run_rule_value_exists ==
    Check("check_run_rule_value_exists", get_values(config_json, "run_rule", <<>>),
          FirstMissing(get_values(config_json, "run_rule", <<>>), get_rule_ids(config_json)),
          "InvalidRunRule")

check_set_device_value_exists ==
    Check("check_set_device_value_exists", get_values(config_json, "set_device", <<>>),
          FirstMissing(get_values(config_json, "set_device", <<>>), get_device_ids(config_json)),
          "InvalidSetDevice")

check_rule_id_exists ==
    Check("check_rule_id_exists", get_values(config_json, "rule_id", <<>>),
          FirstMissing(get_values(config_json, "rule_id", <<>>), get_rule_ids(config_json)),
          "InvalidRuleID")

check_device_id_exists ==
    Check("check_device_id_exists", get_values(config_json, "device_id", <<>>),
          FirstMissing(get_values(config_json, "device_id", <<>>), get_device_ids(config_json)),
          "InvalidDeviceID")

(***************************************************************************)
(* check_number_of_elements_in_masks                                       *)
(***************************************************************************)
\* len(object.get(k, []))
LenOf(object, k) == Len(Get(object, k, EmptyList).v)

\* the test without the "masks" in object guard
MasksMismatchUnguarded(object) == LenOf(object, "masks") # LenOf(object, "values")

\* lines 79-80, 93-94
MasksMismatch(object) ==
    /\ Has(object, "masks")
    /\ LenOf(object, "masks") # LenOf(object, "values")

\* the position of the first object of the list that fails the test, or 0
FirstMismatch(objects) ==
    IF \E i \in 1..Len(objects) : MasksMismatch(objects[i])
    THEN CHOOSE i \in 1..Len(objects) :
            /\ MasksMismatch(objects[i])
            /\ \A l \in 1..(i - 1) : ~MasksMismatch(objects[l])
    ELSE 0

check_number_of_elements_in_masks ==
    LET i2c_write_bytes == get_values(config_json, "i2c_write_bytes", <<>>)
        i2c_compare_bytes == get_values(config_json, "i2c_compare_bytes", <<>>)
    IN /\ pc = "check_number_of_elements_in_masks"
       /\ IF FirstMismatch(i2c_write_bytes) # 0
          THEN Fail("InvalidI2CWriteBytes", i2c_write_bytes[FirstMismatch(i2c_write_bytes)])
          ELSE IF FirstMismatch(i2c_compare_bytes) # 0
          THEN Fail("InvalidI2CCompareBytes",
                    i2c_compare_bytes[FirstMismatch(i2c_compare_bytes)])
          ELSE Proceed
       /\ UNCHANGED <<config_json, key, result, rule_index, frames, call_stack, runs>>

(***************************************************************************)
(* __main__ from validate_schema on.                                       *)
(***************************************************************************)
check_for_duplicates ==
    \/ check_duplicate_rule_id
    \/ check_duplicate_chassis_number
    \/ check_duplicate_device_id
    \/ check_duplicate_rail_id
    \/ check_duplicate_object_id

Next ==
    \/ validate_schema
    \/ check_for_duplicates
    \/ check_infinite_loops
    \/ check_run_rule_value_exists
    \/ check_set_device_value_exists
    \/ check_rule_id_exists
    \/ check_device_id_exists
    \/ check_number_of_elements_in_masks

(***************************************************************************)
(* The documents __main__ is run on.                                       *)
(*   IdDocs:   every document of at most MaxEntities rules, chassis,       *)
(*             devices and rails, the ids drawn from IdPool;               *)
(*   RefDocs:  two rules, r1 and r2 or both r1, one action each or none, of *)
(*             run_rule and set_device at the top level and inside "not"   *)
(*             and "if", and no chassis or a device d1, in the first or    *)
(*             the second chassis, with or without a                       *)
(*             phase_fault_detection naming a device and a rule;           *)
(*   MaskDocs: a rule r1 of one or two i2c_write_bytes / i2c_compare_bytes *)
(*             actions whose masks and values are absent or arrays of at   *)
(*             most MaxBytes bytes, or of one such action inside "not".    *)
(***************************************************************************)
IdPool == {"r1", "d1", "vdd"}

NumberPool == {1, 2}

Optional(k, items) == IF items = <<>> THEN <<>> ELSE <<Entry(k, List(items))>>

RailJson(id) == Dict(<<Entry("id", Str(id))>>)

DeviceJson(id, rails) == Dict(<<Entry("id", Str(id))>> \o Optional("rails", rails))

ChassisJson(number, devices) ==
    Dict(<<Entry("number", Num(number))>> \o Optional("devices", devices))

DocJson(rules, chassis) == Dict(Optional("rules", rules) \o Optional("chassis", chassis))

\* the devices that count for w entities: the device and its w - 1 rails
DevicesOfWeight(w) ==
    {DeviceJson(id, [i \in 1..(w - 1) |-> RailJson(rails[i])]) :
        id \in IdPool, rails \in [1..(w - 1) -> IdPool]}

RECURSIVE DeviceLists(_)
DeviceLists(n) ==
    IF n = 0 THEN {<<>>}
    ELSE UNION {{<<d>> \o rest : d \in DevicesOfWeight(w), rest \in DeviceLists(n - w)} :
                w \in 1..n}

ChassisOfWeight(w) ==
    {ChassisJson(number, devices) : number \in NumberPool, devices \in DeviceLists(w - 1)}

RECURSIVE ChassisLists(_)
ChassisLists(n) ==
    IF n = 0 THEN {<<>>}
    ELSE UNION {{<<c>> \o rest : c \in ChassisOfWeight(w), rest \in ChassisLists(n - w)} :
                w \in 1..n}

RuleLists(n) == {[i \in 1..n |-> RuleJson(ids[i], <<>>)] : ids \in [1..n -> IdPool]}

IdDocs ==
    UNION {{DocJson(rules, chassis) : rules \in RuleLists(r),
                                      chassis \in UNION {ChassisLists(c) : c \in 0..(MaxEntities - r)}} :
           r \in 0..MaxEntities}

SetDeviceAction(id) == Dict(<<Entry("set_device", Str(id))>>)

RunRuleNamed(id) == Dict(<<Entry("run_rule", Str(id))>>)

IfAction(condition, then) ==
    Dict(<<Entry("if", Dict(<<Entry("condition", condition), Entry("then", List(then))>>))>>)

RefActionLists ==
    {<<>>}
    \cup {<<RunRuleNamed(id)>> : id \in {"r1", "r2", "r3"}}
    \cup {<<SetDeviceAction(id)>> : id \in {"d1", "d2"}}
    \cup {<<Dict(<<Entry("not", RunRuleNamed(id))>>)>> : id \in {"r2", "r3"}}
    \cup {<<IfAction(RunRuleNamed("r2"), <<SetDeviceAction(id)>>)>> : id \in {"d1", "d2"}}

RefChassisLists ==
    {<<>>,
     <<ChassisJson(1, <<DeviceJson("d1", <<>>)>>)>>,
     <<ChassisJson(1, <<>>), ChassisJson(2, <<DeviceJson("d1", <<>>)>>)>>}
    \cup {<<ChassisJson(1, <<Dict(<<Entry("id", Str("d1")),
                                   Entry("phase_fault_detection",
                                         Dict(<<Entry("device_id", Str(device_id)),
                                                Entry("rule_id", Str(rule_id))>>))>>)>>)>> :
            device_id \in {"d1", "d2"}, rule_id \in {"r1", "r3"}}

RefDocs ==
    {DocJson(<<RuleJson("r1", a1), RuleJson(second, a2)>>, chassis) :
        second \in {"r2", "r1"}, a1 \in RefActionLists, a2 \in RefActionLists,
        chassis \in RefChassisLists}

\* an array of n bytes, or no entry at all for n = -1
Bytes(k, n) == IF n < 0 THEN <<>> ELSE <<Entry(k, List([i \in 1..n |-> Num(i)]))>>

I2CObject(values, masks) ==
    Dict(<<Entry("register", Num(160))>> \o Bytes("values", values) \o Bytes("masks", masks))

I2CActions ==
    {Dict(<<Entry(kind, I2CObject(values, masks))>>) :
        kind \in {"i2c_write_bytes", "i2c_compare_bytes"},
        values \in -1..MaxBytes, masks \in -1..MaxBytes}

MaskDocs ==
    {DocJson(<<RuleJson("r1", actions)>>, <<>>) :
        actions \in UNION {[1..n -> I2CActions] : n \in 1..2}}
    \cup {DocJson(<<RuleJson("r1", <<Dict(<<Entry("not", a)>>)>>)>>, <<>>) : a \in I2CActions}

Documents == IdDocs \cup RefDocs \cup MaskDocs

\* the state in which __main__, or a caller of one check, enters check p
InitAt(p) ==
    /\ config_json \in Documents
    /\ key = "none"
    /\ result = <<>>
    /\ pc = p
    /\ ran = <<p>>
    /\ error = NoError
    /\ rule_index = 0
    /\ frames = <<>>
    /\ call_stack = <<>>
    /\ runs = 1

Init == InitAt("validate_schema")

Spec == Init /\ [][Next]_vars

\* check_duplicate_object_id called on a document
SpecObjectId == InitAt("check_duplicate_object_id") /\ [][check_duplicate_object_id]_vars

\* check_number_of_elements_in_masks called on a document
SpecMasks ==
    InitAt("check_number_of_elements_in_masks") /\ [][check_number_of_elements_in_masks]_vars

\* fairness: the interpreter runs the one thread until it returns or exits
SpecLoopsLive == SpecLoops /\ WF_vars(check_infinite_loops)

(***************************************************************************)
(* check_infinite_loops called again in the same process, by a caller that *)
(* catches the SystemExit of sys.exit: the list bound to call_stack=[] at  *)
(* definition time is the one every top-level call appends to.             *)
(***************************************************************************)
MaxRuns == 2       \* calls of check_infinite_loops in one process

CallAgain ==
    /\ pc \in {NextCheck("check_infinite_loops"), "failed"}
    /\ runs < MaxRuns
    /\ runs' = runs + 1
    /\ config_json' \in LoopDocs
    /\ pc' = "check_infinite_loops"
    /\ ran' = <<"check_infinite_loops">>
    /\ error' = NoError
    /\ rule_index' = 0
    /\ frames' = <<>>
    /\ UNCHANGED <<key, result, call_stack>>

NextReuse == check_infinite_loops \/ CallAgain

SpecReuse == InitLoops /\ [][NextReuse]_vars

(***************************************************************************)
(* The run_rule graph of the document: an edge for every run_rule action   *)
(* at the top level of a rule's actions list.                              *)
(***************************************************************************)
RuleIds == {Item(Rules[i], "id") : i \in 1..Len(Rules)}

TopLevelTargets(rule_json) ==
    {Item(Actions(rule_json)[a], "run_rule") :
        a \in {b \in 1..Len(Actions(rule_json)) : Has(Actions(rule_json)[b], "run_rule")}}

Edge(from, to) ==
    \E i \in 1..Len(Rules) :
        Item(Rules[i], "id") = from /\ to \in TopLevelTargets(Rules[i])

Successors(ids) == {to \in RuleIds : \E from \in ids : Edge(from, to)}

RECURSIVE ReachableIn(_, _)
ReachableIn(ids, n) ==
    IF n = 0 THEN ids ELSE ReachableIn(ids \cup Successors(ids), n - 1)

HasCycle ==
    \E id \in RuleIds : id \in ReachableIn(Successors({id}), Cardinality(RuleIds))

DistinctRuleIds ==
    \A i, j \in 1..Len(Rules) :
        Item(Rules[i], "id") = Item(Rules[j], "id") => i = j

LoopsPassed == pc = NextCheck("check_infinite_loops") /\ error = NoError

LoopsFailed == pc = "failed" /\ error.kind = "InfiniteLoop"

Front(seq) == SubSeq(seq, 1, Len(seq) - 1)

Distinct(seq) == \A i, j \in 1..Len(seq) : seq[i] = seq[j] => i = j

IsChain(seq) == \A i \in 1..(Len(seq) - 1) : Edge(seq[i], seq[i + 1])

\* a path stack from the rule the traversal started at, followed by a target
\* that is already on it
IsLoopPath(path) ==
    /\ Len(path) >= 2
    /\ Distinct(Front(path))
    /\ IsChain(path)
    /\ path[1] = Item(Rules[rule_index], "id")
    /\ InList(path[Len(path)], Front(path))

NamedRule(i, name, targets) ==
    /\ Len(Rules) >= i
    /\ Item(Rules[i], "id") = Str(name)
    /\ Len(Actions(Rules[i])) = Len(targets)
    /\ \A a \in 1..Len(targets) : Actions(Rules[i])[a] = Dict(<<Entry("run_rule", Str(targets[a]))>>)

\* C2: a document whose top-level run_rule graph has a cycle fails with
\* InfiniteLoop, the path reported is the path stack from the root rule
\* followed by the target already on it, and r1 -> r2 -> r1 declared in that
\* order reports [r1, r2, r1].
C2_CycleReported ==
    /\ (~InLoops /\ HasCycle) => LoopsFailed
    /\ LoopsFailed => IsLoopPath(error.detail)
    /\ (LoopsFailed /\ NamedRule(1, "r1", <<"r2">>) /\ NamedRule(2, "r2", <<"r1">>))
          => error.detail = <<Str("r1"), Str("r2"), Str("r1")>>

C2_Witness ==
    /\ LoopsFailed
    /\ NamedRule(1, "r1", <<"r2">>)
    /\ NamedRule(2, "r2", <<"r1">>)
    /\ error.detail = <<Str("r1"), Str("r2"), Str("r1")>>

\* C3: a document with pairwise-distinct rule ids and no run_rule cycle
\* passes check_infinite_loops; a rule reached along two paths from one root
\* is entered once per path.
C3_AcyclicPasses ==
    (~InLoops /\ DistinctRuleIds /\ ~HasCycle) => LoopsPassed

\* r1 runs r2 and r3, r2 runs r3: r3 entered the second time, straight from r1
C3_Witness ==
    /\ NamedRule(1, "r1", <<"r2", "r3">>)
    /\ NamedRule(2, "r2", <<"r3">>)
    /\ NamedRule(3, "r3", <<>>)
    /\ InLoops
    /\ call_stack = <<Str("r1"), Str("r3")>>
    /\ Len(frames) = 2
    /\ frames[1].action = 2

\* C4: every top-level traversal starts from an empty path stack, and the
\* outcome of a run is decided by its document alone.
C4_FreshStackEveryRun ==
    /\ (InLoops /\ frames = <<>>) => call_stack = <<>>
    /\ ~InLoops => (LoopsFailed <=> HasCycle)

FrameIds == [i \in 1..Len(frames) |-> Item(frames[i].rule_json, "id")]

\* C10: during a traversal the path stack is the ids of the live calls,
\* pairwise distinct, a run_rule chain from the root rule to the current
\* rule (so a call that returns leaves the stack as it found it), and the
\* stack is empty after a run that found no loop.
C10_StackIsCurrentPath ==
    /\ InLoops =>
          /\ call_stack = FrameIds
          /\ Distinct(call_stack)
          /\ IsChain(call_stack)
          /\ frames # <<>> => frames[1].rule_json = Rules[rule_index]
    /\ LoopsPassed => call_stack = <<>>

\* a nested call has returned into its caller, which is still live
C10_Witness ==
    /\ InLoops
    /\ Len(frames) = 2
    /\ frames[2].lookup > 0
    /\ call_stack = FrameIds

\* C9: check_infinite_loops ends on every rules list, by InfiniteLoop or by
\* returning, and a run_rule whose target names no rule is passed over: no
\* call, no failure, the next action is examined.
DanglingTarget ==
    /\ InLoops
    /\ frames # <<>>
    /\ Top.lookup = 0
    /\ Top.action <= Len(Actions(Top.rule_json))
    /\ Has(CurrentAction, "run_rule")
    /\ Item(CurrentAction, "run_rule") \notin RuleIds

C9_Terminates ==
    /\ <>(LoopsPassed \/ LoopsFailed)
    /\ [][DanglingTarget =>
            /\ pc' = pc
            /\ call_stack' = call_stack
            /\ frames' = SetTop([Top EXCEPT !.action = @ + 1])]_vars

\* a run over rules sharing an id, one of them with a dangling target, ended
C9_Witness ==
    /\ LoopsPassed
    /\ ~DistinctRuleIds
    /\ \E i \in 1..Len(Rules) : \E id \in TopLevelTargets(Rules[i]) : id \notin RuleIds

(***************************************************************************)
(* The pipeline.                                                           *)
(***************************************************************************)
KindsOf(check) ==
    CASE check = "validate_schema" -> {"SchemaInvalid"}
      [] check = "check_duplicate_rule_id" -> {"DuplicateRuleID"}
      [] check = "check_duplicate_chassis_number" -> {"DuplicateChassisNumber"}
      [] check = "check_duplicate_device_id" -> {"DuplicateDeviceID"}
      [] check = "check_duplicate_rail_id" -> {"DuplicateRailID"}
      [] check = "check_duplicate_object_id" -> {"DuplicateID"}
      [] check = "check_infinite_loops" -> {"InfiniteLoop"}
      [] check = "check_run_rule_value_exists" -> {"InvalidRunRule"}
      [] check = "check_set_device_value_exists" -> {"InvalidSetDevice"}
      [] check = "check_rule_id_exists" -> {"InvalidRuleID"}
      [] check = "check_device_id_exists" -> {"InvalidDeviceID"}
      [] check = "check_number_of_elements_in_masks" ->
            {"InvalidI2CWriteBytes", "InvalidI2CCompareBytes"}

Entered(check) == InList(check, ran)

\* C1: the checks are entered in the fixed order schema, uniqueness (rule
\* ids, chassis numbers, device ids, rail ids, all ids), cycle detection,
\* references (run_rule, set_device, rule_id, device_id), array arity; a
\* failure belongs to the last check entered and nothing is entered after
\* it; a document in which two rules share an id gets no further than the
\* rule-id check, which rejects it as a duplicate rule ID.
C1_FixedOrderFailFast ==
    /\ Len(ran) \in 1..Len(Checks)
    /\ \A i \in 1..Len(ran) : ran[i] = Checks[i]
    /\ pc \notin {"failed", "exit0"} => pc = ran[Len(ran)] /\ error = NoError
    /\ pc = "exit0" => ran = Checks /\ error = NoError
    /\ pc = "failed" => error.kind \in KindsOf(ran[Len(ran)])
    /\ ~DistinctRuleIds =>
          /\ Len(ran) <= 2
          /\ pc # "exit0"
          /\ (pc = "failed" /\ Len(ran) = 2) => error.kind = "DuplicateRuleID"

\* two rules share an id and the run_rule graph has a cycle: rejected as a
\* duplicate rule ID, cycle detection not entered
C1_Witness ==
    /\ pc = "failed"
    /\ error.kind = "DuplicateRuleID"
    /\ HasCycle
    /\ ran = <<"validate_schema", "check_duplicate_rule_id">>

Occurrences(x, seq) == Cardinality({i \in 1..Len(seq) : seq[i] = x})

\* the rule-ID list, the device-ID list and the rail-ID list, concatenated
CandidateIds == get_rule_ids(config_json) \o get_device_ids(config_json) \o RailIds(config_json)

ObjectIdFailed == pc = "failed" /\ error.kind = "DuplicateID"

RECURSIVE ValuesAtAnyDepth(_, _)
\* the values of the entries with key k anywhere in json
ValuesAtAnyDepth(json, k) ==
    IF json.t = "dict"
    THEN UNION {(IF json.v[i].k = k THEN {json.v[i].v} ELSE {})
                    \cup ValuesAtAnyDepth(json.v[i].v, k) : i \in 1..Len(json.v)}
    ELSE IF json.t = "list"
    THEN UNION {ValuesAtAnyDepth(json.v[i], k) : i \in 1..Len(json.v)}
    ELSE {}

DeviceIds ==
    UNION {{Item(Items(Items(config_json, "chassis")[c], "devices")[d], "id") :
                d \in 1..Len(Items(Items(config_json, "chassis")[c], "devices"))} :
           c \in 1..Len(Items(config_json, "chassis"))}

UnresolvedReference ==
    \/ \E id \in ValuesAtAnyDepth(config_json, "run_rule") : id \notin RuleIds
    \/ \E id \in ValuesAtAnyDepth(config_json, "rule_id") : id \notin RuleIds
    \/ \E id \in ValuesAtAnyDepth(config_json, "set_device") : id \notin DeviceIds
    \/ \E id \in ValuesAtAnyDepth(config_json, "device_id") : id \notin DeviceIds

ReferenceChecks ==
    {"check_run_rule_value_exists", "check_set_device_value_exists",
     "check_rule_id_exists", "check_device_id_exists"}

ReferenceFailed ==
    /\ pc = "failed"
    /\ error.kind \in {"InvalidRunRule", "InvalidSetDevice", "InvalidRuleID", "InvalidDeviceID"}

\* C7: once a document has passed uniqueness and cycle detection, reference
\* resolution fails if some run_rule or rule_id value at any depth is not
\* the id of a rule, or some set_device or device_id value at any depth is
\* not the id of a device of some chassis, and passes otherwise.
C7_ReferencesResolve ==
    (Entered("check_run_rule_value_exists") /\ pc \notin ReferenceChecks) =>
        /\ ReferenceFailed <=> UnresolvedReference
        /\ ~UnresolvedReference => Entered("check_number_of_elements_in_masks")

\* a set_device two levels inside an action names no device
C7_Witness ==
    /\ ReferenceFailed
    /\ error.kind = "InvalidSetDevice"
    /\ \A i \in 1..Len(Rules) : \A a \in 1..Len(Actions(Rules[i])) :
            ~Has(Actions(Rules[i])[a], "set_device")

I2CObjects ==
    {get_values(config_json, "i2c_write_bytes", <<>>)[i] :
        i \in 1..Len(get_values(config_json, "i2c_write_bytes", <<>>))}
    \cup {get_values(config_json, "i2c_compare_bytes", <<>>)[i] :
        i \in 1..Len(get_values(config_json, "i2c_compare_bytes", <<>>))}

ValuesLength(object) == IF Has(object, "values") THEN Len(Item(object, "values").v) ELSE 0

MasksFailed ==
    /\ pc = "failed"
    /\ error.kind \in {"InvalidI2CWriteBytes", "InvalidI2CCompareBytes"}

\* C8: check_number_of_elements_in_masks fails if and only if some
\* i2c_write_bytes or i2c_compare_bytes object the scan finds has a masks
\* field whose length differs from that of its values field, a missing
\* values field counting 0; an object without masks never makes it fail.
C8_MasksArity ==
    pc # "check_number_of_elements_in_masks" =>
        /\ MasksFailed <=>
              \E object \in I2CObjects :
                  /\ Has(object, "masks")
                  /\ Len(Item(object, "masks").v) # ValuesLength(object)
        /\ MasksFailed => Has(error.detail, "masks")
        /\ ~MasksFailed => pc = "exit0"

\* masks of one byte and no values field
C8_Witness ==
    /\ MasksFailed
    /\ ~Has(error.detail, "values")
    /\ Len(Item(error.detail, "masks").v) = 1

RECURSIVE AllValues(_, _, _), AllValuesDict(_, _, _, _), AllValuesList(_, _, _, _)
\* the scan that collects the value of an entry with the key and descends
\* into every entry that is a dict or a list, matched or not
AllValuesDict(entries, i, k, acc) ==
    IF i > Len(entries) THEN acc
    ELSE LET e == entries[i]
             collected == IF e.k = k THEN Append(acc, e.v) ELSE acc
             next == IF IsContainer(e.v) THEN AllValues(e.v, k, collected) ELSE collected
         IN AllValuesDict(entries, i + 1, k, next)

AllValuesList(items, i, k, acc) ==
    IF i > Len(items) THEN acc
    ELSE LET next == IF IsContainer(items[i]) THEN AllValues(items[i], k, acc) ELSE acc
         IN AllValuesList(items, i + 1, k, next)

AllValues(json, k, acc) ==
    IF json.t = "dict" THEN AllValuesDict(json.v, 1, k, acc)
    ELSE IF json.t = "list" THEN AllValuesList(json.v, 1, k, acc)
    ELSE acc

\* C6: get_values returns, in traversal order, the value of every entry
\* with the key at any depth, descending into every dict or list entry
\* whether or not its key matched.
C6_EveryOccurrenceCollected ==
    pc = "returned" => result = AllValues(config_json, key, <<>>)

====
